---------------------------- MODULE Spec2Model ----------------------------
(***************************************************************************)
(* Model of the missing-glyph resolution pipeline of                      *)
(* src/src/fixmissingunicode.py (FixFontGlyphsUnicodesPdfix): the scan of  *)
(* the document for characters of embedded fonts without a usable Unicode *)
(* value, the OCR sampling and vote per missing glyph, the page render    *)
(* cache and its clean-up, and the write-back into the font; of the exit  *)
(* status main (src/src/main.py) gives the run; and of CharLocation and    *)
(* _increase_bbox on their own.                                            *)
(*                                                                         *)
(* The document, the SDK and the OCR engine are the environment: what they *)
(* return is drawn with \E at the step that asks for it.                   *)
(***************************************************************************)
EXTENDS Integers, Sequences, FiniteSets, TLC

(***************************************************************************)
(* Bounds of the model.                                                    *)
(***************************************************************************)
\* characters needing OCR that one document holds at most
MaxChars == 2
\* locations of the glyph the sampling specification starts from
MaxLocs == 6
\* how many of them are of the lesser height
MaxShort == 2
\* the top and the bottom of the boxes of the box specification: 0 .. MaxCoord
MaxCoord == 3
\* its margins: -MaxMargin .. MaxMargin
MaxMargin == 2

(***************************************************************************)
(* Program constants.                                                      *)
(***************************************************************************)
\* _ocr_missing_glyph: max_count
max_count == 5
\* _ocr_missing_glyph: self._increase_bbox(location.bbox, 2)
increase_by == 2
\* _should_char_be_ocr: U+FFFE and U+FEFF
Sentinels == {65534, 65279}

(***************************************************************************)
(* The environment's values.                                               *)
(***************************************************************************)
\* the page indices of the document
Pages == {0, 1}
\* doc.GetNumPages()
NumPages == Cardinality(Pages)
\* Fonts by identity. fA and fB are two distinct fonts of one name; the
\* name of fC ends in a digit; fD is not embedded.
Fonts == {"fA", "fB", "fC", "fD"}
\* PdfFont.GetFontName(), a string as a sequence of characters
GetFontName(font) ==
    CASE font = "fA" -> <<"F">>
      [] font = "fB" -> <<"F">>
      [] font = "fC" -> <<"F", "1">>
      [] OTHER       -> <<"G">>
\* PdfFont.GetEmbedded()
GetEmbedded(font) == font # "fD"
\* char codes a text object uses
CharCodes == {2, 12}
\* text.GetCharCode: the codes the text objects of a font use. Those of fA
\* use both, the others one.
CodesOf(font) == IF font = "fA" THEN CharCodes ELSE {2}
\* decoded texts (text.GetCharText), as sequences of code points: "", U+FFFE,
\* U+FEFF, "A", and the two-code-point text of a ligature, "fi"
CharTexts == {<< >>, <<65534>>, <<65279>>, <<65>>, <<102, 105>>}
\* PdfFont.SetUnicodeForCharcode returns True or False; for the fonts other
\* than fA both are seen, for fA it returns True
SetResults(font) == IF font = "fA" THEN {TRUE} ELSE BOOLEAN
\* bounding boxes (PdfRect, text.GetCharBBox): heights 10 and 20 with
\* bottom < top, and height 30 in the other convention (top < bottom)
BoxA == [left |-> 0, top |-> 10, right |-> 5, bottom |-> 0]
BoxB == [left |-> 0, top |-> 20, right |-> 5, bottom |-> 0]
BoxC == [left |-> 0, top |-> 0, right |-> 5, bottom |-> 30]
ScanBoxes == {BoxA, BoxB}
SampleBoxes == {BoxA, BoxC}
\* what one OCR call returns: nothing, or a symbol
OcrOutputs == {"", "x", "y"}
\* self.default_character
default_character == "?"

NoPage == -1
\* the process has not exited
NoExit == -1
NoFont == "none"
\* no character of a text object has been read
NoText == <<-1>>

VARIABLES
    pc,              \* fix_missing_unicode: open, scan, resolve, cleanup, save, done, failed
    error,           \* the exception that ended the run, "" when none
    page_index,      \* _gather_all_missing_occurences: the page loop's index
    held,            \* the page acquired and not yet released, NoPage when none
    handles,         \* page handles acquired (doc.AcquirePage) less those released
    curFont,         \* the font of the text object whose characters are walked
    char_text,       \* the decoded text of the character read last, NoText when none
    occ,             \* every occurrence that needed OCR, as read: font, code, page, bbox
    missing_glyphs,  \* the dict, in insertion order: key, font, char_code, locations
    glyph_index,     \* _process_all_missing_occurences: position in missing_glyphs.values()
    rpc,             \* within one glyph: "begin" (before the sort), "sample", "written"
    count,           \* _ocr_missing_glyph: count
    results,         \* _ocr_missing_glyph: results
    sampled,         \* the samples of the glyph: location, what came of it, engine raised
    cached_renders,  \* self.cached_renders: the page indices that have a render
    files,           \* the page rasters that exist on disk, by page index
    renders,         \* page index -> times render_page ran for it
    removed,         \* page index -> times os.remove ran on its raster
    setCalls,        \* the calls font.SetUnicodeForCharcode(char_code, new_char)
    setFailed,       \* which of the calls, by position, returned False
    skipped,         \* what the scan went past without reading it: what, on which page
    exit_code,       \* main: the status the process exits with, NoExit while it runs
    teardown,        \* fix_missing_unicode: the calls its finally blocks made, in order
    update_thread,   \* main: the update check: "new", "running", "returned", "raised"
    bbox0,           \* box specification: the PdfRect as it was made
    by,              \* box specification: the increase_by of the _increase_bbox calls
    bpc,             \* box specification: "off", "made", "located", "once", "twice"
    char_location,   \* box specification: the CharLocation that holds the PdfRect
    swapped          \* box specification: a CharLocation of the box turned over

vars == <<pc, error, page_index, held, handles, curFont, char_text, occ,
          missing_glyphs, glyph_index, rpc, count, results, sampled, cached_renders, files,
          renders, removed, setCalls, setFailed, skipped, exit_code, teardown, update_thread,
          bbox0, by, bpc, char_location, swapped>>

scanVars == <<page_index, held, curFont, char_text, occ, missing_glyphs>>
glyphVars == <<glyph_index, rpc, count, results, sampled>>
cacheVars == <<cached_renders, files, renders, removed>>
boxVars == <<bbox0, by, bpc, char_location, swapped>>

(***************************************************************************)
(* CharLocation and MissingGlyph.                                          *)
(***************************************************************************)
Abs(x) == IF x < 0 THEN -x ELSE x

\* as GetHeight, were abs() left out
GetHeightSigned(bbox) == bbox.top - bbox.bottom

\* CharLocation._get_height
GetHeight(bbox) == Abs(bbox.top - bbox.bottom)

\* CharLocation.__init__
CharLocation(page, bbox) ==
    [page_index |-> page, bbox |-> bbox, height |-> GetHeight(bbox)]

DigitChars == <<"0", "1", "2", "3", "4", "5", "6", "7", "8", "9">>

\* str(char_code) inside the f-string of the key
RECURSIVE Decimal(_)
Decimal(n) ==
    IF n < 10 THEN <<DigitChars[n + 1]>>
    ELSE Decimal(n \div 10) \o <<DigitChars[(n % 10) + 1]>>

\* MissingGlyph.key: f"{font.GetFontName()}{char_code}"
GlyphKey(font, char_code) == GetFontName(font) \o Decimal(char_code)

\* MissingGlyph.__init__
MissingGlyph(font, char_code) ==
    [key |-> GlyphKey(font, char_code), font |-> font,
     char_code |-> char_code, locations |-> << >>]

\* position of a key in the dict, 0 when absent
KeyIndex(table, key) ==
    IF \E i \in 1 .. Len(table) : table[i].key = key
    THEN CHOOSE i \in 1 .. Len(table) : table[i].key = key
    ELSE 0

\* lines 225-231: the entry under the glyph's key is created when absent, and
\* the location is appended to the entry under that key
AddOccurrence(table, font, char_code, page, bbox) ==
    LET glyph_info == MissingGlyph(font, char_code)
        location == CharLocation(page, bbox)
        with == IF KeyIndex(table, glyph_info.key) = 0
                THEN Append(table, glyph_info) ELSE table
        i == KeyIndex(with, glyph_info.key)
    IN [with EXCEPT ![i].locations = Append(@, location)]

\* _should_char_be_ocr, for a text ord() accepts
ShouldCharBeOcr(character) ==
    IF character = << >> THEN TRUE
    ELSE character[1] \in Sentinels

\* ord(character) raises TypeError unless the string holds one code point
OrdRaises(character) == character # << >> /\ Len(character) # 1


(***************************************************************************)
(* The resolver's pure parts.                                              *)
(***************************************************************************)
\* list.sort(key=height, reverse=True) is stable: an element goes behind
\* every element at least as tall as it
RECURSIVE InsertByHeight(_, _)
InsertByHeight(sorted, x) ==
    IF sorted = << >> THEN <<x>>
    ELSE IF Head(sorted).height >= x.height
         THEN <<Head(sorted)>> \o InsertByHeight(Tail(sorted), x)
         ELSE <<x>> \o sorted

\* as SortByHeightDesc, were the sort left out
KeepDiscoveryOrder(locations) == locations

RECURSIVE SortByHeightDesc(_)
SortByHeightDesc(locations) ==
    IF locations = << >> THEN << >>
    ELSE InsertByHeight(SortByHeightDesc(SubSeq(locations, 1, Len(locations) - 1)),
                        locations[Len(locations)])

\* results.count(x)
CountOf(list, x) == Cardinality({i \in 1 .. Len(list) : list[i] = x})

\* max(results, key=results.count): the first element is the candidate, and a
\* later element replaces it only when its key is strictly greater
\* as MaxFrom, were an element of equal key to replace the candidate
RECURSIVE MaxFromLastWins(_, _, _)
MaxFromLastWins(list, i, best) ==
    IF i > Len(list) THEN best
    ELSE IF CountOf(list, list[i]) >= CountOf(list, best)
         THEN MaxFromLastWins(list, i + 1, list[i])
         ELSE MaxFromLastWins(list, i + 1, best)

RECURSIVE MaxFrom(_, _, _)
MaxFrom(list, i, best) ==
    IF i > Len(list) THEN best
    ELSE IF CountOf(list, list[i]) > CountOf(list, best)
         THEN MaxFrom(list, i + 1, list[i])
         ELSE MaxFrom(list, i + 1, best)

MaxByCount(list) == MaxFrom(list, 2, list[1])

\* as ChosenChar, were the empty list not given the default character
ChosenCharNoDefault(list) ==
    IF Len(list) = 0 THEN "" ELSE MaxByCount(list)

\* _ocr_missing_glyph, lines 338-350: the character chosen from the results
ChosenChar(list) ==
    IF Len(list) = 0 THEN default_character ELSE MaxByCount(list)

\* as IncreaseBbox, were every box taken to have its bottom below its top
IncreaseBboxOneWay(bbox, increase) ==
    [left |-> bbox.left - increase, right |-> bbox.right + increase,
     top |-> bbox.top + increase, bottom |-> bbox.bottom - increase]

\* _increase_bbox: the box it is given, with its four fields changed
IncreaseBbox(bbox, increase) ==
    IF bbox.bottom < bbox.top
    THEN [left |-> bbox.left - increase, right |-> bbox.right + increase,
          top |-> bbox.top + increase, bottom |-> bbox.bottom - increase]
    ELSE [left |-> bbox.left - increase, right |-> bbox.right + increase,
          top |-> bbox.top - increase, bottom |-> bbox.bottom + increase]

\* as TakesSample, were the limit compared with the count before its increment
TakesSampleOneMore(n, locations) == n < Len(locations) /\ n <= max_count

\* _ocr_missing_glyph, lines 303-306: whether the loop takes another sample
TakesSample(n, locations) == n < Len(locations) /\ n + 1 <= max_count

\* as IsCached, were the cache never hit
NeverCached(cache, page) == FALSE

\* _get_pdf_page_render, line 364
IsCached(cache, page) == page \in cache

\* as RemoveRasters, were only one of the cached rasters removed
RemoveOneRaster(onDisk, cache) ==
    IF cache = {} THEN onDisk ELSE onDisk \ {CHOOSE p \in cache : TRUE}

\* _clean_up_rendered_pages: the files left once every cached raster is removed
RemoveRasters(onDisk, cache) == onDisk \ cache

(***************************************************************************)
(* Initial state: the object is constructed, fix_missing_unicode begins.   *)
(***************************************************************************)
PipelineInit ==
    /\ pc = "open"
    /\ error = ""
    /\ page_index = 0
    /\ held = NoPage
    /\ handles = 0
    /\ curFont = NoFont
    /\ char_text = NoText
    /\ occ = << >>
    /\ missing_glyphs = << >>
    /\ glyph_index = 1
    /\ rpc = "begin"
    /\ count = 0
    /\ results = << >>
    /\ sampled = << >>
    /\ cached_renders = {}
    /\ files = {}
    /\ renders = [p \in Pages |-> 0]
    /\ removed = [p \in Pages |-> 0]
    /\ setCalls = << >>
    /\ setFailed = {}
    /\ skipped = {}
    /\ exit_code = NoExit
    /\ teardown = << >>

\* no box is under study
BoxOff ==
    /\ bbox0 = BoxA
    /\ by = 0
    /\ bpc = "off"
    /\ char_location = CharLocation(0, BoxA)
    /\ swapped = CharLocation(0, BoxA)

\* main.py, lines 157-176: the thread of the update check
\* the update check has ended by returning
ThreadReturned == update_thread = "returned"

\* as JoinReturns, were the join left out
JoinLeftOut(thread) == TRUE

\* line 176, update_thread.join(): returns once the thread has ended, by
\* returning from its target or by an exception of it
JoinReturns(thread) == thread \in {"returned", "raised"}

\* line 162 has run: update_thread.start()
Started(thread) == thread # "new"

\* the pipeline from its start, the update check having ended before
\* fix_missing_unicode was called
Init == PipelineInit /\ BoxOff /\ ThreadReturned

\* An exception leaves fix_missing_unicode: the finally blocks release the
\* page held, and the locals of the frames it unwinds are gone. What
\* outlives the call is self.cached_renders, the files and the fonts.
Raise(what) ==
    /\ pc' = "failed"
    /\ error' = what
    /\ held' = NoPage
    /\ page_index' = 0
    /\ curFont' = NoFont
    /\ occ' = << >>
    /\ missing_glyphs' = << >>
    /\ glyph_index' = 1
    /\ rpc' = "begin"
    /\ count' = 0
    /\ results' = << >>
    /\ sampled' = << >>
    /\ skipped' = {}

(***************************************************************************)
(* fix_missing_unicode, lines 133-144: the SDK, the license, the document. *)
(***************************************************************************)
\* as Finally, were the inner finally left out
FinallyDestroyOnly(opened, obtained) ==
    IF obtained THEN <<"pdfix.Destroy">> ELSE << >>

\* lines 137-159: what the finally blocks call when fix_missing_unicode is
\* left. The inner try (lines 146-157) is entered once the document is opened
\* and its finally closes it; the outer try (line 137) is entered once the
\* SDK is obtained and its finally, which runs after the inner one, destroys it.
Finally(opened, obtained) ==
    (IF opened THEN <<"doc.Close">> ELSE << >>)
        \o (IF obtained THEN <<"pdfix.Destroy">> ELSE << >>)

\* the calls of the finally blocks by the end of a step that may leave
\* fix_missing_unicode, by return or by exception: none while the run goes on.
\* The document is open in every stage after line 144; the SDK is obtained
\* unless GetPdfix() returned None (lines 133-135, before the outer try).
TornDown(t) ==
    IF pc' \in {"done", "failed"}
    THEN t \o Finally(pc # "open", error' # "PdfixInitialize")
    ELSE t

OpenDoc ==
    /\ pc = "open"
    /\ Started(update_thread)
    /\ \E outcome \in {"PdfixInitialize", "PdfixAuthorization", "PdfixActivation",
                       "PdfixFailedToOpen", "ok"} :
          IF outcome = "ok"
          THEN /\ pc' = "scan"
               /\ UNCHANGED <<error, page_index, held, curFont, occ, missing_glyphs,
                              glyphVars, skipped>>
          ELSE Raise(outcome)
    /\ UNCHANGED <<char_text, cacheVars, setCalls, setFailed, exit_code, boxVars, handles>>
    /\ teardown' = TornDown(teardown)
    /\ UNCHANGED update_thread

(***************************************************************************)
(* _gather_all_missing_occurences.                                         *)
(***************************************************************************)
\* as PageRelease, were the release left out
ReleaseForgotten(n) == n

\* page.Release(), lines 233 and 336: one handle less is out
PageRelease(n) == n - 1

\* as ScanDone, were the return inside the loop over the pages
ScanDoneAfterFirstPage(i) == i >= 1

\* line 176: range(page_count) is exhausted
ScanDone(i) == i = NumPages

\* as ContinuePages, were the statement a break
BreakPages(i) == NumPages

\* lines 182 and 191: continue, the loop over range(page_count) goes on
ContinuePages(i) == i + 1

\* lines 176-191: the next page is acquired; a page that is None, or whose
\* content is None, is skipped (the latter released by the finally)
ScanAcquirePage ==
    /\ pc = "scan"
    /\ held = NoPage
    /\ ~ScanDone(page_index)
    /\ \E outcome \in {"nopage", "nocontent", "ok"} :
          IF outcome = "ok"
          THEN /\ held' = page_index
               /\ handles' = handles + 1
               /\ UNCHANGED <<page_index, skipped>>
          ELSE /\ page_index' = ContinuePages(page_index)
               /\ skipped' = skipped \cup
                     {[what |-> IF outcome = "nopage" THEN "page" ELSE "content",
                       page_index |-> page_index]}
               /\ handles' = IF outcome = "nopage" THEN handles
                             ELSE PageRelease(handles + 1)
               /\ UNCHANGED held
    /\ UNCHANGED <<pc, error, curFont, char_text, occ, missing_glyphs>>
    /\ UNCHANGED <<glyphVars, cacheVars, setCalls, setFailed, exit_code, teardown, update_thread, boxVars>>

\* lines 205-211 with every font taken for an embedded one
WalksCharsOfAnyFont(obj) == obj \in Fonts

\* lines 201-211: the characters of an object are walked only when it is a
\* text object whose font is there and is embedded
WalksChars(obj) == obj \in Fonts /\ GetEmbedded(obj)

\* lines 209-211: a text object passed at "continue" for its font, which is
\* absent or not embedded
PassedForFont(obj) == obj \in {"nofont"} \cup Fonts /\ ~WalksChars(obj)

\* what a passed object is remembered as: an object that is None (line 198)
\* or a text object passed for its font (line 211)
PassedAs(obj) == IF obj = "none" THEN "object" ELSE "font"

\* lines 196-214: the next object of the page. An object that is None is
\* printed and passed. Only a text object with an embedded font has its
\* characters walked.
ScanObject ==
    /\ pc = "scan"
    /\ held # NoPage
    /\ curFont = NoFont
    /\ \E obj \in {"none", "nottext", "nofont"} \cup Fonts :
          /\ IF WalksChars(obj)
             THEN curFont' = obj
             ELSE UNCHANGED curFont
          /\ skipped' = IF obj = "none" \/ PassedForFont(obj)
                        THEN skipped \cup {[what |-> PassedAs(obj), page_index |-> page_index]}
                        ELSE skipped
    /\ UNCHANGED <<pc, error, page_index, held, char_text, occ, missing_glyphs>>
    /\ UNCHANGED <<glyphVars, cacheVars, setCalls, setFailed, exit_code, teardown, update_thread, boxVars, handles>>

\* lines 216-231: one character of the text object
ScanChar ==
    /\ pc = "scan"
    /\ curFont # NoFont
    /\ Len(occ) < MaxChars
    /\ \E char_code \in CodesOf(curFont), text \in CharTexts, bbox \in ScanBoxes :
          /\ char_text' = text
          /\ IF OrdRaises(text)
             THEN \* the finally of lines 232-233 releases the page
                  Raise("TypeError") /\ handles' = PageRelease(handles)
             ELSE /\ UNCHANGED handles
                  /\ IF ShouldCharBeOcr(text)
                     THEN /\ missing_glyphs' = AddOccurrence(missing_glyphs, curFont,
                                                  char_code, page_index, bbox)
                          /\ occ' = Append(occ,
                                [font |-> curFont, char_code |-> char_code,
                                 page_index |-> page_index, bbox |-> bbox])
                     ELSE UNCHANGED <<occ, missing_glyphs>>
                  /\ UNCHANGED <<pc, error, page_index, held, curFont, glyphVars, skipped>>
    /\ UNCHANGED <<cacheVars, setCalls, setFailed, exit_code, boxVars>>
    /\ teardown' = TornDown(teardown)
    /\ UNCHANGED update_thread

\* the character loop of the text object ends
ScanEndObject ==
    /\ pc = "scan"
    /\ curFont # NoFont
    /\ curFont' = NoFont
    /\ char_text' = NoText
    /\ UNCHANGED <<pc, error, page_index, held, occ, missing_glyphs>>
    /\ UNCHANGED <<glyphVars, cacheVars, setCalls, setFailed, exit_code, teardown, update_thread, boxVars, handles, skipped>>

\* lines 232-233: the object loop ends, the page is released
ScanReleasePage ==
    /\ pc = "scan"
    /\ held # NoPage
    /\ curFont = NoFont
    /\ held' = NoPage
    /\ handles' = PageRelease(handles)
    /\ page_index' = page_index + 1
    /\ UNCHANGED <<pc, error, curFont, char_text, occ, missing_glyphs>>
    /\ UNCHANGED <<glyphVars, cacheVars, setCalls, setFailed, exit_code, teardown, update_thread, boxVars, skipped>>

\* line 235 and line 150: the table is returned and handed to the resolver,
\* whose loop over an empty dict returns at once. What the scan printed is
\* not kept past its return.
ScanReturn ==
    /\ pc = "scan"
    /\ held = NoPage
    /\ ScanDone(page_index)
    /\ pc' = IF missing_glyphs = << >> THEN "cleanup" ELSE "resolve"
    /\ skipped' = {}
    /\ UNCHANGED <<error, scanVars, glyphVars, cacheVars>>
    /\ UNCHANGED <<setCalls, setFailed, exit_code, teardown, update_thread, boxVars, handles>>

(***************************************************************************)
(* _process_all_missing_occurences and _ocr_missing_glyph.                 *)
(***************************************************************************)
Glyph == missing_glyphs[glyph_index]

\* lines 277-279: the next value of the dict; its locations are sorted in place
BeginGlyph ==
    /\ pc = "resolve"
    /\ rpc \in {"begin", "written"}
    /\ glyph_index <= Len(missing_glyphs)
    /\ missing_glyphs' = [missing_glyphs EXCEPT
                            ![glyph_index].locations = SortByHeightDesc(@)]
    /\ rpc' = "sample"
    /\ count' = 0
    /\ results' = << >>
    /\ sampled' = << >>
    /\ UNCHANGED <<pc, error, page_index, held, curFont, char_text, occ, glyph_index>>
    /\ UNCHANGED <<cacheVars, setCalls, setFailed, exit_code, teardown, update_thread, boxVars, handles, skipped>>

\* ocr.py, tesseract_ocr, rapid_ocr and easy_ocr: the engine is called inside
\* try/except Exception, and the handler returns self.default_character
OcrBackend(raised, out) == IF raised THEN default_character ELSE out

\* What one pass can come to: the page is not acquired; render_page raises
\* (only a page that is not cached is rendered); crop_image raises; the OCR
\* engine returns an output; or the OCR engine raises.
SampleOutcomes(cached) ==
    {[kind |-> k, out |-> ""] :
        k \in {"nopage", "cropfail"} \cup (IF cached THEN {} ELSE {"renderfail"})}
    \cup {[kind |-> "ocr", out |-> OcrBackend(FALSE, r)] : r \in OcrOutputs}
    \cup {[kind |-> "ocrraise", out |-> OcrBackend(TRUE, "")]}

\* as CountAfter, were a pass counted only once its page is acquired
CountAfterAcquired(n, kind) == IF kind = "nopage" THEN n ELSE n + 1

\* line 304: count after a pass of the loop. It is raised at the top of the
\* pass, before the page is asked for, whatever the pass comes to.
CountAfter(n, kind) == n + 1

\* lines 303-336: one pass of the loop over the locations that takes a sample
OcrSample ==
    /\ pc = "resolve"
    /\ rpc = "sample"
    /\ TakesSample(count, Glyph.locations)
    /\ LET location == Glyph.locations[count + 1]
           page == location.page_index
           cached == IsCached(cached_renders, page)
       IN
       \E outcome \in SampleOutcomes(cached) :
          \* _get_pdf_page_render: a page that is not cached gets a file of
          \* its own (delete=False) and is rendered into it
          /\ IF outcome.kind # "nopage" /\ ~cached
             THEN /\ files' = files \cup {page}
                  /\ renders' = [renders EXCEPT ![page] = @ + 1]
                  /\ cached_renders' = IF outcome.kind # "renderfail"
                                       THEN cached_renders \cup {page}
                                       ELSE cached_renders
             ELSE UNCHANGED <<files, renders, cached_renders>>
          \* lines 308-313 and 335-336: a page that was acquired is released
          \* by the finally, whatever the try block came to
          /\ handles' = IF outcome.kind = "nopage" THEN handles
                        ELSE PageRelease(handles + 1)
          /\ IF outcome.kind = "renderfail"
             THEN Raise("PdfixFailedToRender")
             ELSE IF outcome.kind = "cropfail"
             THEN Raise("CropFailed")
             ELSE /\ count' = CountAfter(count, outcome.kind)
                  /\ IF outcome.kind = "nopage"
                     THEN \* lines 310-313
                          /\ sampled' = Append(sampled,
                                [location |-> location, out |-> "nopage",
                                 raised |-> FALSE])
                          /\ UNCHANGED <<results, missing_glyphs>>
                     ELSE \* line 321 changes the bbox the location holds
                          /\ missing_glyphs' = [missing_glyphs EXCEPT
                                ![glyph_index].locations[count + 1].bbox =
                                    IncreaseBbox(@, increase_by)]
                          /\ results' = IF outcome.out # ""
                                        THEN Append(results, outcome.out)
                                        ELSE results
                          /\ sampled' = Append(sampled,
                                [location |-> location, out |-> outcome.out,
                                 raised |-> outcome.kind = "ocrraise"])
                  /\ UNCHANGED <<pc, error, page_index, held, curFont, occ,
                                 glyph_index, rpc, skipped>>
    /\ UNCHANGED <<char_text, removed, setCalls, setFailed, exit_code, boxVars>>
    /\ teardown' = TornDown(teardown)
    /\ UNCHANGED update_thread

\* as AfterSet, were the loop left at a call that returns False
AfterSetBreaks(set_ok, last) == IF last \/ ~set_ok THEN "cleanup" ELSE "resolve"

\* lines 277 and 282-284: where the run is after SetUnicodeForCharcode. What
\* the call returned decides only whether a line is printed; after the last
\* value of the dict the loop ends and line 151 is next.
AfterSet(set_ok, last) == IF last THEN "cleanup" ELSE "resolve"

\* lines 305-306 and 338-350, then lines 282-284: the loop ends, the character
\* is chosen and written into the font; a write that fails is only printed.
\* After the last value of the dict line 151 is reached.
WriteGlyph ==
    /\ pc = "resolve"
    /\ rpc = "sample"
    /\ ~TakesSample(count, Glyph.locations)
    /\ count' = IF count < Len(Glyph.locations) THEN count + 1 ELSE count
    /\ setCalls' = Append(setCalls, [font |-> Glyph.font, char_code |-> Glyph.char_code,
                                     new_char |-> ChosenChar(results)])
    /\ \E set_ok \in SetResults(Glyph.font) :
          /\ setFailed' = IF set_ok THEN setFailed ELSE setFailed \cup {Len(setCalls) + 1}
          /\ pc' = AfterSet(set_ok, glyph_index = Len(missing_glyphs))
    /\ rpc' = "written"
    /\ glyph_index' = glyph_index + 1
    /\ UNCHANGED <<error, scanVars, results, sampled, cacheVars, skipped, exit_code, teardown, update_thread, boxVars,
                   handles>>

\* _clean_up_rendered_pages: os.remove of every value of cached_renders.
\* _process_all_missing_occurences has returned and its locals are gone; the
\* table is not read again after line 150, and the model forgets it here.
CleanUpRenderedPages ==
    /\ pc = "cleanup"
    /\ files' = RemoveRasters(files, cached_renders)
    /\ removed' = [p \in Pages |->
                     IF p \in cached_renders THEN removed[p] + 1 ELSE removed[p]]
    /\ pc' = "save"
    /\ rpc' = "begin"
    /\ count' = 0
    /\ results' = << >>
    /\ sampled' = << >>
    /\ glyph_index' = 1
    /\ page_index' = 0
    /\ occ' = << >>
    /\ missing_glyphs' = << >>
    /\ UNCHANGED <<error, held, curFont, char_text, cached_renders, renders>>
    /\ UNCHANGED <<setCalls, setFailed, exit_code, teardown, update_thread, boxVars, handles, skipped>>

\* lines 154-155: doc.Save
SaveDoc ==
    /\ pc = "save"
    /\ \E saved \in BOOLEAN :
          IF saved
          THEN /\ pc' = "done"
               /\ UNCHANGED <<error, page_index, held, curFont, occ, missing_glyphs,
                              glyphVars, skipped>>
          ELSE Raise("PdfixFailedToSave")
    /\ UNCHANGED <<char_text, cacheVars, setCalls, setFailed, exit_code, boxVars, handles>>
    /\ teardown' = TornDown(teardown)
    /\ UNCHANGED update_thread

(***************************************************************************)
(* main.py, main: the subcommand has run.                                  *)
(***************************************************************************)
\* exceptions.py: the exceptions of the pipeline that are ExpectedException
ExpectedExceptions ==
    {"PdfixInitialize", "PdfixAuthorization", "PdfixActivation",
     "PdfixFailedToOpen", "PdfixFailedToSave", "PdfixFailedToRender"}

\* exceptions.py: the error_code of an ExpectedException; every class has a
\* code of its own and none is zero (the numbers stand for them)
error_code(what) ==
    CASE what = "PdfixInitialize"     -> 10
      [] what = "PdfixAuthorization"  -> 11
      [] what = "PdfixActivation"     -> 12
      [] what = "PdfixFailedToOpen"   -> 13
      [] what = "PdfixFailedToSave"   -> 14
      [] what = "PdfixFailedToRender" -> 15

\* as ExitStatus, were an exception that is not expected only printed
ExitStatusPrintsOnly(what) ==
    IF what = "" THEN 0
    ELSE IF what \in ExpectedExceptions THEN error_code(what)
    ELSE 0

\* main, lines 165-178: sys.exit(e.error_code) for an ExpectedException,
\* sys.exit(9) for any other exception, and the end of main (status 0) when
\* the subcommand returned
ExitStatus(what) ==
    IF what = "" THEN 0
    ELSE IF what \in ExpectedExceptions THEN error_code(what)
    ELSE 9

Exit ==
    /\ pc \in {"done", "failed"}
    /\ exit_code = NoExit
    /\ JoinReturns(update_thread)
    /\ exit_code' = ExitStatus(error)
    /\ UNCHANGED <<pc, error, scanVars, glyphVars, cacheVars, setCalls, setFailed,
                   skipped, handles, teardown, update_thread, boxVars>>

Next ==
    \/ OpenDoc
    \/ ScanAcquirePage
    \/ ScanObject
    \/ ScanChar
    \/ ScanEndObject
    \/ ScanReleasePage
    \/ ScanReturn
    \/ BeginGlyph
    \/ OcrSample
    \/ WriteGlyph
    \/ CleanUpRenderedPages
    \/ SaveDoc
    \/ Exit

Spec == Init /\ [][Next]_vars

(***************************************************************************)
(* main with the thread of the update check, over a document whose text    *)
(* objects have no characters: every interleaving of the thread with the   *)
(* subcommand.                                                             *)
(***************************************************************************)
MainInit == PipelineInit /\ BoxOff /\ update_thread = "new"

\* lines 157-162: the thread is made and started, before the subcommand is run
StartThread ==
    /\ update_thread = "new"
    /\ pc = "open"
    /\ update_thread' = "running"
    /\ UNCHANGED <<pc, error, scanVars, glyphVars, cacheVars, setCalls, setFailed,
                   skipped, handles, exit_code, teardown, boxVars>>

\* check_for_image_updates in its thread: it ends at some time, by returning
\* or by an exception, and has no state in common with the subcommand
UpdateCheck ==
    /\ update_thread = "running"
    /\ update_thread' \in {"returned", "raised"}
    /\ UNCHANGED <<pc, error, scanVars, glyphVars, cacheVars, setCalls, setFailed,
                   skipped, handles, exit_code, teardown, boxVars>>

MainNext ==
    \/ StartThread
    \/ UpdateCheck
    \/ OpenDoc
    \/ ScanAcquirePage
    \/ ScanObject
    \/ ScanEndObject
    \/ ScanReleasePage
    \/ ScanReturn
    \/ CleanUpRenderedPages
    \/ SaveDoc
    \/ Exit

MainSpec == MainInit /\ [][MainNext]_vars

(***************************************************************************)
(* The resolver alone, from a table the scan returns: one glyph that       *)
(* occurs up to MaxLocs times on the first page.                           *)
(***************************************************************************)
SampleInit ==
    \E n \in 1 .. MaxLocs : \E boxes \in [1 .. n -> SampleBoxes] :
        /\ Cardinality({i \in 1 .. n : boxes[i] = BoxA}) <= MaxShort
        /\ pc = "resolve"
        /\ error = ""
        /\ page_index = NumPages
        /\ held = NoPage
        /\ handles = 0
        /\ curFont = NoFont
        /\ char_text = NoText
        /\ occ = [i \in 1 .. n |-> [font |-> "fA", char_code |-> 12,
                                    page_index |-> 0, bbox |-> boxes[i]]]
        /\ missing_glyphs =
              <<[MissingGlyph("fA", 12) EXCEPT
                    !.locations = [i \in 1 .. n |-> CharLocation(0, boxes[i])]]>>
        /\ glyph_index = 1
        /\ rpc = "begin"
        /\ count = 0
        /\ results = << >>
        /\ sampled = << >>
        /\ cached_renders = {}
        /\ files = {}
        /\ renders = [p \in Pages |-> 0]
        /\ removed = [p \in Pages |-> 0]
        /\ setCalls = << >>
        /\ setFailed = {}
        /\ skipped = {}
        /\ exit_code = NoExit
        /\ teardown = << >>
        /\ ThreadReturned
        /\ BoxOff

SampleNext ==
    \/ BeginGlyph
    \/ OcrSample
    \/ WriteGlyph
    \/ CleanUpRenderedPages
    \/ SaveDoc

SampleSpec == SampleInit /\ [][SampleNext]_vars

(***************************************************************************)
(* CharLocation and _increase_bbox alone: a PdfRect of any top and bottom  *)
(* is put into a CharLocation, increased by a margin, and increased by the *)
(* margin negated. The PdfRect is one object: _increase_bbox changes the   *)
(* box the CharLocation holds, and the height, set by __init__, stays.     *)
(***************************************************************************)
\* the box with top and bottom exchanged
TurnedOver(bbox) == [bbox EXCEPT !.top = bbox.bottom, !.bottom = bbox.top]

BoxInit ==
    /\ PipelineInit
    /\ ThreadReturned
    /\ \E t, b \in 0 .. MaxCoord :
          bbox0 = [left |-> 0, top |-> t, right |-> 5, bottom |-> b]
    /\ by \in (0 - MaxMargin) .. MaxMargin
    /\ bpc = "made"
    /\ char_location = CharLocation(0, BoxA)
    /\ swapped = CharLocation(0, BoxA)

\* CharLocation(page_index, bbox), lines 33-43
NewLocation ==
    /\ bpc = "made"
    /\ char_location' = CharLocation(0, bbox0)
    /\ swapped' = CharLocation(0, TurnedOver(bbox0))
    /\ bpc' = "located"
    /\ UNCHANGED <<bbox0, by>>
    /\ UNCHANGED <<pc, error, scanVars, glyphVars, cacheVars, setCalls, setFailed,
                   skipped, handles, exit_code, teardown, update_thread>>

\* self._increase_bbox(location.bbox, by)
Increase ==
    /\ bpc = "located"
    /\ char_location' = [char_location EXCEPT !.bbox = IncreaseBbox(@, by)]
    /\ bpc' = "once"
    /\ UNCHANGED <<bbox0, by, swapped>>
    /\ UNCHANGED <<pc, error, scanVars, glyphVars, cacheVars, setCalls, setFailed,
                   skipped, handles, exit_code, teardown, update_thread>>

\* self._increase_bbox(location.bbox, -by)
IncreaseBack ==
    /\ bpc = "once"
    /\ char_location' = [char_location EXCEPT !.bbox = IncreaseBbox(@, 0 - by)]
    /\ bpc' = "twice"
    /\ UNCHANGED <<bbox0, by, swapped>>
    /\ UNCHANGED <<pc, error, scanVars, glyphVars, cacheVars, setCalls, setFailed,
                   skipped, handles, exit_code, teardown, update_thread>>

BoxNext ==
    \/ NewLocation
    \/ Increase
    \/ IncreaseBack

BoxSpec == BoxInit /\ [][BoxNext]_vars


(***************************************************************************)
(* Shorthands of the claims.                                               *)
(***************************************************************************)
Range(seq) == {seq[i] : i \in 1 .. Len(seq)}

\* _gather_all_missing_occurences has just returned a table that is not empty
ScanReturned == pc = "resolve" /\ rpc = "begin" /\ glyph_index = 1

\* _process_all_missing_occurences has just returned
ResolveReturned == pc = "cleanup"

\* SetUnicodeForCharcode has just been called for a glyph
JustWritten == rpc = "written"

LastCall == setCalls[Len(setCalls)]

CallsFor(font, char_code) ==
    {i \in 1 .. Len(setCalls) :
        setCalls[i].font = font /\ setCalls[i].char_code = char_code}

(***************************************************************************)
(* C1. For every distinct (font, char code) pair the scan found missing,   *)
(* fonts told apart by identity and not by name, SetUnicodeForCharcode is  *)
(* called exactly once on that font with that char code in one run.        *)
(* Stated of the runs whose resolution ran to its end.                     *)
(***************************************************************************)
C1_SetOncePerFontAndCode ==
    ResolveReturned =>
        \A o \in Range(occ) : Cardinality(CallsFor(o.font, o.char_code)) = 1

(***************************************************************************)
(* C2. A character of an embedded-font text object needs resolution        *)
(* exactly when its decoded text is empty or is U+FFFE or U+FEFF: then one *)
(* location is added; for every other decoded text, of whatever length,    *)
(* the table is left as it is and the scan goes on.                        *)
(***************************************************************************)
RECURSIVE TotalLocations(_)
TotalLocations(table) ==
    IF table = << >> THEN 0
    ELSE Len(Head(table).locations) + TotalLocations(Tail(table))

NeedsResolution(text) ==
    text = << >> \/ text = <<65534>> \/ text = <<65279>>

C2_OnlyEmptyOrSentinelIsMissing ==
    [][(pc = "scan" /\ curFont # NoFont /\ char_text' # NoText) =>
          IF NeedsResolution(char_text')
          THEN /\ TotalLocations(missing_glyphs') = TotalLocations(missing_glyphs) + 1
               /\ pc' = "scan"
          ELSE /\ missing_glyphs' = missing_glyphs
               /\ pc' = "scan"]_vars

(***************************************************************************)
(* C3. Every occurrence that needs resolution adds one CharacterLocation   *)
(* to the MissingGlyph of its (font name, char code) pair: when the scan   *)
(* returns, the MissingGlyph of a pair holds exactly the pair's            *)
(* occurrences, each with its page index and bounding box, in the order    *)
(* they were found.                                                        *)
(***************************************************************************)
OccurrencesOf(name, char_code) ==
    LET Mine(o) == GetFontName(o.font) = name /\ o.char_code = char_code
    IN SelectSeq(occ, Mine)

C3_LocationsPerNameAndCode ==
    ScanReturned =>
        \A o \in Range(occ) :
            LET mine == OccurrencesOf(GetFontName(o.font), o.char_code)
                i == KeyIndex(missing_glyphs, GlyphKey(o.font, o.char_code))
            IN /\ i # 0
               /\ missing_glyphs[i].locations =
                     [k \in 1 .. Len(mine) |->
                         [page_index |-> mine[k].page_index, bbox |-> mine[k].bbox,
                          height |-> IF mine[k].bbox.top >= mine[k].bbox.bottom
                                     THEN mine[k].bbox.top - mine[k].bbox.bottom
                                     ELSE mine[k].bbox.bottom - mine[k].bbox.top]]

(***************************************************************************)
(* C10. The rasters are cleaned up on every exit path: when the run ends   *)
(* with an exception after a page raster was created, every raster file    *)
(* created so far has been deleted.                                        *)
(***************************************************************************)
C10_CleanupOnEveryExit ==
    (pc = "failed" /\ \E p \in Pages : renders[p] > 0) => files = {}

(***************************************************************************)
(* Shorthands of the claims about the resolver.                            *)
(***************************************************************************)
BoxHeight(bbox) ==
    IF bbox.top >= bbox.bottom THEN bbox.top - bbox.bottom
    ELSE bbox.bottom - bbox.top

FirstIndex(list, x) ==
    CHOOSE i \in 1 .. Len(list) : list[i] = x /\ \A j \in 1 .. (i - 1) : list[j] # x

Occurs(list, x) == Cardinality({i \in 1 .. Len(list) : list[i] = x})

\* the glyph being sampled, or the one just written
TheGlyph == IF rpc = "written" THEN glyph_index - 1 ELSE glyph_index

\* the occurrences read by the scan that went under the key of the glyph
OccurrencesUnder(key) ==
    LET Mine(o) == GlyphKey(o.font, o.char_code) = key
    IN SelectSeq(occ, Mine)

(***************************************************************************)
(* C4. When the list of non-empty OCR results of a glyph is not empty, the *)
(* character written is the symbol that occurs most often in the list, and *)
(* among several symbols of the highest count the one that appears first.  *)
(***************************************************************************)
C4_MostFrequentFirstSeen ==
    (JustWritten /\ results # << >>) =>
        LET c == LastCall.new_char
        IN /\ c \in Range(results)
           /\ \A x \in Range(results) :
                 /\ Occurs(results, x) <= Occurs(results, c)
                 /\ (x # c /\ Occurs(results, x) = Occurs(results, c))
                       => FirstIndex(results, c) < FirstIndex(results, x)

C4_Witness ==
    /\ JustWritten
    /\ results = <<"y", "x", "x", "y">>
    /\ LastCall.new_char = "y"

(***************************************************************************)
(* C5. If every sample of a glyph gave no OCR result (the OCR returned the *)
(* empty string, or the page of the sample could not be acquired), the     *)
(* character written for the glyph is the default character.               *)
(***************************************************************************)
C5_DefaultWhenNoResult ==
    (JustWritten /\ \A i \in 1 .. Len(sampled) : sampled[i].out \in {"", "nopage"}) =>
        LastCall.new_char = default_character

C5_Witness ==
    /\ JustWritten
    /\ \E i \in 1 .. Len(sampled) : sampled[i].out = ""
    /\ \E i \in 1 .. Len(sampled) : sampled[i].out = "nopage"
    /\ \A i \in 1 .. Len(sampled) : sampled[i].out \in {"", "nopage"}
    /\ LastCall.new_char = default_character

(***************************************************************************)
(* C6. At most 5 locations of a glyph are sampled; of a glyph with 5 or    *)
(* more locations the sampled ones are the 5 of the greatest height; and   *)
(* the samples are taken in order of descending height.                    *)
(***************************************************************************)
C6_FiveTallestInOrder ==
    (pc \in {"resolve", "cleanup"} /\ rpc \in {"sample", "written"}) =>
        LET all == OccurrencesUnder(missing_glyphs[TheGlyph].key)
            NumAll(h) == Cardinality({i \in 1 .. Len(all) : BoxHeight(all[i].bbox) = h})
            NumSampled(h) ==
                Cardinality({i \in 1 .. Len(sampled) :
                                BoxHeight(sampled[i].location.bbox) = h})
            heights == {BoxHeight(all[i].bbox) : i \in 1 .. Len(all)}
        IN /\ Len(sampled) <= 5
           /\ \A i, j \in 1 .. Len(sampled) :
                 i < j => BoxHeight(sampled[i].location.bbox)
                             >= BoxHeight(sampled[j].location.bbox)
           /\ \A h \in heights : NumSampled(h) <= NumAll(h)
           /\ \A h1, h2 \in heights :
                 (h1 > h2 /\ NumSampled(h2) > 0) => NumSampled(h1) = NumAll(h1)
           /\ rpc = "written" =>
                 Len(sampled) = IF Len(all) < 5 THEN Len(all) ELSE 5

C6_Witness ==
    /\ JustWritten
    /\ Len(occ) = 6
    /\ BoxHeight(occ[1].bbox) = 10
    /\ BoxHeight(occ[4].bbox) = 10
    /\ Len(sampled) = 5
    /\ BoxHeight(sampled[4].location.bbox) = 30
    /\ BoxHeight(sampled[5].location.bbox) = 10

(***************************************************************************)
(* C7. One embedded font, one char code without a Unicode value, seen on   *)
(* two pages with heights 10 and 20; the OCR returns "x" for the taller    *)
(* occurrence and "y" for the shorter one. Then the results are            *)
(* <<"x", "y">>, and the font is given "x" for that char code.              *)
(***************************************************************************)
C7_Scenario ==
    /\ JustWritten
    /\ Len(occ) = 2
    /\ occ[1].font = occ[2].font
    /\ occ[1].char_code = occ[2].char_code
    /\ occ[1].page_index # occ[2].page_index
    /\ {BoxHeight(occ[1].bbox), BoxHeight(occ[2].bbox)} = {10, 20}
    /\ Len(sampled) = 2
    /\ \A i \in 1 .. 2 :
          sampled[i].out = IF BoxHeight(sampled[i].location.bbox) = 20 THEN "x" ELSE "y"

C7_EndToEnd ==
    C7_Scenario =>
        /\ results = <<"x", "y">>
        /\ setCalls = <<[font |-> occ[1].font, char_code |-> occ[1].char_code,
                         new_char |-> "x"]>>

C7_Witness ==
    /\ C7_Scenario
    /\ occ[1].page_index = 0
    /\ BoxHeight(occ[1].bbox) = 10
    /\ LastCall.new_char = "x"

(***************************************************************************)
(* C8. Within one run a page index is rasterized at most once, however     *)
(* many samples of however many glyphs lie on the page: the first request  *)
(* renders and records it, a later one finds it recorded.                  *)
(***************************************************************************)
C8_RenderOncePerPage ==
    \A p \in Pages :
        /\ renders[p] <= 1
        /\ p \in cached_renders => renders[p] = 1

\* two glyphs, each sampled with success on the first page, one render
C8_Witness ==
    /\ JustWritten
    /\ Len(missing_glyphs) = 2
    /\ Len(setCalls) = 2
    /\ \A g \in 1 .. 2 :
          /\ missing_glyphs[g].locations[1].page_index = 0
          /\ missing_glyphs[g].locations[1].bbox.left = 0 - increase_by
    /\ renders[0] = 1

(***************************************************************************)
(* C9. When the resolution of a run completes, the clean-up removes the    *)
(* file of every page raster created in the run, each exactly once: no     *)
(* raster file is left when the run ends.                                  *)
(***************************************************************************)
CleanedUp ==
    \/ pc \in {"save", "done"}
    \/ pc = "failed" /\ error = "PdfixFailedToSave"

C9_CleanupRemovesEveryRaster ==
    /\ CleanedUp =>
          /\ files = {}
          /\ \A p \in Pages : removed[p] = renders[p]
    /\ \A p \in Pages : removed[p] <= 1

C9_Witness ==
    /\ pc = "done"
    /\ files = {}
    /\ \A p \in Pages : renders[p] = 1 /\ removed[p] = 1

(***************************************************************************)
(* C11. A page that cannot be rasterized while a location is sampled costs *)
(* that sample only: the sample is skipped and the loop goes on to the     *)
(* next location, with the run not ended by it.                            *)
(***************************************************************************)
\* render_page ran for a page and the page did not get into the cache
RenderFailsInStep ==
    \E p \in Pages : renders'[p] = renders[p] + 1 /\ p \notin cached_renders'

C11_RenderFailureIsLocal ==
    [][RenderFailsInStep =>
          /\ pc' = "resolve"
          /\ error' = ""
          /\ count' = count + 1
          /\ results' = results]_vars

(***************************************************************************)
(* C12. A page that is not acquired, a page whose content is not obtained  *)
(* and an object that is not obtained are passed during the scan: the run  *)
(* goes on, the table is left as it is, and the scan takes the next page   *)
(* (the next object of the same page), so that missing glyphs of later     *)
(* pages are found.                                                        *)
(***************************************************************************)
C12_ScanSkipsAndGoesOn ==
    [][\A e \in skipped' \ skipped :
          /\ pc' = "scan"
          /\ error' = ""
          /\ missing_glyphs' = missing_glyphs
          /\ e.what \in {"page", "content"} =>
                /\ page_index' = e.page_index + 1
                /\ held' = NoPage
          /\ e.what = "object" =>
                /\ page_index' = page_index
                /\ held' = held
                /\ held = e.page_index]_vars

\* the first page was not acquired, an object of the second page was not
\* obtained, and a missing glyph of the second page is in the table
C12_Witness ==
    /\ pc = "scan"
    /\ [what |-> "page", page_index |-> 0] \in skipped
    /\ [what |-> "object", page_index |-> 1] \in skipped
    /\ \E g \in 1 .. Len(missing_glyphs) :
          \E k \in 1 .. Len(missing_glyphs[g].locations) :
             missing_glyphs[g].locations[k].page_index = 1

(***************************************************************************)
(* C13. A SetUnicodeForCharcode call that fails is only printed: the run   *)
(* is not ended by it, the loop goes on to the next glyph of the table     *)
(* when there is one, and the clean-up of the rasters and the save of the  *)
(* document come after the last glyph as they do after a call that         *)
(* succeeds.                                                               *)
(***************************************************************************)
C13_SetFailureOnlyLogged ==
    [][setFailed' # setFailed =>
          /\ error' = ""
          /\ Len(setCalls') = Len(setCalls) + 1
          /\ glyph_index' = glyph_index + 1
          /\ pc' = IF glyph_index < Len(missing_glyphs) THEN "resolve" ELSE "cleanup"]_vars

\* the call for the first of two glyphs failed; the second glyph was
\* written, the rasters were removed and the document was saved
C13_Witness ==
    /\ pc = "done"
    /\ 1 \in setFailed
    /\ 2 \notin setFailed
    /\ Len(setCalls) = 2
    /\ \E p \in Pages : removed[p] = 1

(***************************************************************************)
(* C14. An exception inside the OCR engine's call becomes "no result": the *)
(* sample adds no symbol to the results of the glyph, so the results hold  *)
(* one symbol for each sample whose engine call returned a symbol, and     *)
(* none for a sample whose engine call raised.                             *)
(***************************************************************************)
C14_EngineExceptionIsNoResult ==
    (pc \in {"resolve", "cleanup"} /\ rpc \in {"sample", "written"}) =>
        Len(results) =
            Cardinality({i \in 1 .. Len(sampled) :
                            /\ ~sampled[i].raised
                            /\ sampled[i].out \notin {"", "nopage"}})

(***************************************************************************)
(* C15. The process exits with status zero exactly when the pipeline ran   *)
(* to its end and the document was saved; when the run ended with an       *)
(* exception (of the SDK's start, the license, the opening or the saving   *)
(* of the document, or any other) the status is not zero.                  *)
(***************************************************************************)
C15_ZeroExactlyWhenSaved ==
    exit_code # NoExit =>
        /\ exit_code = 0 <=> (pc = "done" /\ error = "")
        /\ pc = "failed" => exit_code # 0

\* an exception that is not an ExpectedException, raised after a raster was
\* made, has ended the process with a status that is not zero
C15_Witness ==
    /\ pc = "failed"
    /\ error = "CropFailed"
    /\ files # {}
    /\ exit_code = 9

(***************************************************************************)
(* C16. The scan and the resolution do not interleave. While the scan runs *)
(* no sample has been taken, no raster made and no character written; the  *)
(* resolution begins only when every page has been scanned, with every     *)
(* occurrence found in the table; and while the resolution runs no         *)
(* MissingGlyph and no location is added to the table.                     *)
(***************************************************************************)
LocationCounts(table) == [g \in 1 .. Len(table) |-> Len(table[g].locations)]

C16_ScanThenResolve ==
    [][/\ pc' \in {"open", "scan"} =>
             /\ sampled' = << >>
             /\ results' = << >>
             /\ setCalls' = << >>
             /\ files' = {}
             /\ cached_renders' = {}
             /\ \A p \in Pages : renders'[p] = 0
       /\ pc' = "resolve" =>
             /\ page_index' = NumPages
             /\ held' = NoPage
             /\ curFont' = NoFont
             /\ TotalLocations(missing_glyphs') = Len(occ')
       /\ (pc = "resolve" /\ pc' = "resolve") =>
             LocationCounts(missing_glyphs') = LocationCounts(missing_glyphs)]_vars

\* missing glyphs were found on the first and on the second page, and the
\* first sample has been taken
C16_Witness ==
    /\ pc = "resolve"
    /\ Len(sampled) = 1
    /\ Len(occ) = 2
    /\ occ[1].page_index = 0
    /\ occ[2].page_index = 1
    /\ \E p \in Pages : renders[p] = 1

(***************************************************************************)
(* C17. Every page handle acquired in the scan or in the resolution is     *)
(* released exactly once, on every way out: the handles out are those      *)
(* acquired less those released, at most one is out at any time, it is the *)
(* page the scan holds, and none is out between two samples, when a phase  *)
(* has ended or when the run was ended by an exception.                    *)
(***************************************************************************)
C17_PagesReleasedOnce ==
    /\ handles \in {0, 1}
    /\ handles = IF held # NoPage THEN 1 ELSE 0
    /\ pc # "scan" => handles = 0

\* the crop of a sample raised with the page of the sample acquired: the
\* run has ended and the handle is back
C17_Witness ==
    /\ pc = "failed"
    /\ error = "CropFailed"
    /\ \E p \in Pages : renders[p] = 1
    /\ handles = 0

(***************************************************************************)
(* C18. A box increased by a margin m and then by -m is the box it was:    *)
(* for every box, of either convention, and every margin.                  *)
(***************************************************************************)
C18_IncreaseThenBackIsSame ==
    bpc = "twice" => char_location.bbox = bbox0

(***************************************************************************)
(* C18, amended. A box increased by m and then by -m is the box it was     *)
(* exactly when the box increased by m is of the convention of the box it  *)
(* was made from (bottom < top, or bottom >= top). Every margin m >= 0     *)
(* keeps the convention. A margin m < 0 keeps it only when the box is      *)
(* higher than 2|m| (at least as high, for bottom >= top).                 *)
(***************************************************************************)
BottomBelowTop(bbox) == bbox.bottom < bbox.top

C18_SameWhenConventionKept ==
    /\ bpc = "twice" =>
          (char_location.bbox = bbox0
              <=> BottomBelowTop(IncreaseBbox(bbox0, by)) = BottomBelowTop(bbox0))
    /\ (bpc \in {"once", "twice"} /\ by >= 0) =>
          BottomBelowTop(IncreaseBbox(bbox0, by)) = BottomBelowTop(bbox0)
    /\ (bpc = "twice" /\ by >= 0) => char_location.bbox = bbox0

\* a box whose top is below its bottom, increased by the margin the
\* resolver uses and back
C18_Witness ==
    /\ bpc = "twice"
    /\ by = increase_by
    /\ bbox0.top < bbox0.bottom
    /\ char_location.bbox = bbox0

(***************************************************************************)
(* C19. The height of a CharLocation is |top - bottom| of its box: it is   *)
(* never negative, and it is the height of the CharLocation of the box     *)
(* with top and bottom exchanged.                                          *)
(***************************************************************************)
C19_HeightIsAbsoluteDifference ==
    bpc = "located" =>
        /\ char_location.height >= 0
        /\ char_location.height = swapped.height
        /\ \/ char_location.height = bbox0.top - bbox0.bottom
           \/ char_location.height = bbox0.bottom - bbox0.top

\* a box whose top is below its bottom and the box turned over
C19_Witness ==
    /\ bpc = "located"
    /\ bbox0.top < bbox0.bottom
    /\ swapped.bbox.top > swapped.bbox.bottom
    /\ char_location.height = 2

(***************************************************************************)
(* C20. During the scan and in the table it returns, the locations of a    *)
(* MissingGlyph are those of the occurrences of its own font and char      *)
(* code, fonts told apart by identity, also when another font or another   *)
(* name and char code give the same key; no two entries of the table have  *)
(* the same key; and no MissingGlyph is without a location.                *)
(***************************************************************************)
OwnOccurrences(glyph) ==
    LET Mine(o) == o.font = glyph.font /\ o.char_code = glyph.char_code
    IN SelectSeq(occ, Mine)

C20_LocationsOfOwnFontAndCode ==
    (pc = "scan" \/ ScanReturned) =>
        \A g \in 1 .. Len(missing_glyphs) :
            LET glyph == missing_glyphs[g]
                own == OwnOccurrences(glyph)
            IN /\ Len(glyph.locations) > 0
               /\ \A h \in 1 .. Len(missing_glyphs) :
                     h # g => missing_glyphs[h].key # glyph.key
               /\ Len(glyph.locations) = Len(own)
               /\ \A k \in 1 .. Len(own) :
                     /\ glyph.locations[k].page_index = own[k].page_index
                     /\ glyph.locations[k].bbox = own[k].bbox


(***************************************************************************)
(* C21. Only a text object whose font is there and is embedded is          *)
(* processed: a text object with an absent or a not embedded font is       *)
(* passed and leaves the table as it is, so every entry of the table is    *)
(* of an embedded font and SetUnicodeForCharcode is never called on a      *)
(* font that is not embedded.                                              *)
(***************************************************************************)
C21_OnlyEmbeddedFonts ==
    [][/\ \A g \in 1 .. Len(missing_glyphs') : GetEmbedded(missing_glyphs'[g].font)
       /\ \A c \in 1 .. Len(setCalls') : GetEmbedded(setCalls'[c].font)
       /\ curFont' # NoFont => GetEmbedded(curFont')
       /\ \A e \in skipped' \ skipped :
             e.what = "font" =>
                /\ missing_glyphs' = missing_glyphs
                /\ occ' = occ
                /\ curFont' = NoFont
                /\ pc' = "scan"]_vars

\* a text object of the first page was passed for its font, and a glyph of
\* an embedded font found on the second page is in the table
C21_Witness ==
    /\ pc = "scan"
    /\ [what |-> "font", page_index |-> 0] \in skipped
    /\ Len(missing_glyphs) = 1
    /\ GetEmbedded(missing_glyphs[1].font)
    /\ \A k \in 1 .. Len(missing_glyphs[1].locations) :
          missing_glyphs[1].locations[k].page_index = 1


(***************************************************************************)
(* C22. A location is not changed after the scan: a pass of the            *)
(* resolution that takes a sample leaves the page index, the bounding box  *)
(* and the height of every location of the table as the scan stored them,  *)
(* the enlarged box being a new one.                                       *)
(***************************************************************************)
C22_ResolutionLeavesLocations ==
    [][Len(sampled') > Len(sampled) /\ pc' = "resolve" =>
          \A g \in 1 .. Len(missing_glyphs) :
             \A k \in 1 .. Len(missing_glyphs[g].locations) :
                LET before == missing_glyphs[g].locations[k]
                    after == missing_glyphs'[g].locations[k]
                IN /\ after.page_index = before.page_index
                   /\ after.bbox = before.bbox
                   /\ after.height = before.height]_vars


(***************************************************************************)
(* C24. A pass whose page is not acquired uses one of the 5 passes a glyph *)
(* gets: the pages asked for are min(5, number of locations) for a glyph,  *)
(* the results are no more than the passes whose page was acquired, and    *)
(* the location of the i-th pass has fewer than i locations taller than    *)
(* it, so that one with 5 or more taller locations is never asked for,     *)
(* however few results the passes gave.                                    *)
(***************************************************************************)
C24_NoPageUsesASlot ==
    (pc \in {"resolve", "cleanup"} /\ rpc \in {"sample", "written"}) =>
        LET all == OccurrencesUnder(missing_glyphs[TheGlyph].key)
            limit == IF Len(all) < max_count THEN Len(all) ELSE max_count
            acquired == {i \in 1 .. Len(sampled) : sampled[i].out # "nopage"}
            Taller(l) == {j \in 1 .. Len(all) : BoxHeight(all[j].bbox) > l.height}
        IN /\ Len(sampled) <= limit
           /\ rpc = "sample" => count = Len(sampled)
           /\ rpc = "written" => Len(sampled) = limit
           /\ Len(results) <= Cardinality(acquired)
           /\ \A i \in 1 .. Len(sampled) :
                 Cardinality(Taller(sampled[i].location)) < i

\* a glyph of 6 locations, the shortest of them alone: the pages of two of
\* the 5 tallest were not acquired, 3 results at most were had, and the
\* shortest location was not asked for
C24_Witness ==
    /\ JustWritten
    /\ Len(occ) = 6
    /\ Cardinality({j \in 1 .. 6 : BoxHeight(occ[j].bbox) = 10}) = 1
    /\ Len(sampled) = 5
    /\ Cardinality({i \in 1 .. 5 : sampled[i].out = "nopage"}) = 2
    /\ Len(results) <= 3
    /\ \A i \in 1 .. 5 : sampled[i].location.height > 10


\* how many times a call is among those the finally blocks made
TimesCalled(call) == Cardinality({i \in 1 .. Len(teardown) : teardown[i] = call})

\* the exceptions raised before the document is opened (lines 133-144)
RaisedBeforeOpened ==
    {"PdfixInitialize", "PdfixAuthorization", "PdfixActivation", "PdfixFailedToOpen"}

\* fix_missing_unicode has been left, by return or by exception
RunLeft == pc \in {"done", "failed"}

\* the document, once opened, is closed once; the SDK, once obtained, is
\* destroyed once; the document is closed before the SDK is destroyed; and
\* neither call is made while the run goes on or for what was never there
TornDownOnce ==
    /\ TimesCalled("doc.Close") =
          IF RunLeft /\ error \notin RaisedBeforeOpened THEN 1 ELSE 0
    /\ TimesCalled("pdfix.Destroy") =
          IF RunLeft /\ error # "PdfixInitialize" THEN 1 ELSE 0
    /\ Len(teardown) = TimesCalled("doc.Close") + TimesCalled("pdfix.Destroy")
    /\ \A i, j \in 1 .. Len(teardown) :
          (teardown[i] = "doc.Close" /\ teardown[j] = "pdfix.Destroy") => i < j

(***************************************************************************)
(* C25. On every way out of fix_missing_unicode (return, a save that       *)
(* failed, an exception of the scan or of the resolution) the document,    *)
(* once opened, is closed exactly once and the SDK, once obtained, is      *)
(* destroyed exactly once, the document first. doc.Save is called only     *)
(* after SetUnicodeForCharcode was called for every entry of the table,    *)
(* and is not called in a run the scan or the resolution ended by an       *)
(* exception.                                                              *)
(***************************************************************************)
C25_TornDownOnceSavedLast ==
    [][/\ TornDownOnce'
       /\ (pc' = "save" /\ pc # "save") =>
             /\ pc = "cleanup"
             /\ error = ""
             /\ Len(setCalls) = Len(missing_glyphs)
             /\ glyph_index = Len(missing_glyphs) + 1
       /\ (pc' = "done" \/ error' = "PdfixFailedToSave") => pc \in {"save", pc'}
       /\ pc = "failed" => (pc' = "failed" /\ error' = error /\ teardown' = teardown)]_vars

\* the resolution raised after the first of two glyphs was written: the
\* document was closed, then the SDK destroyed, and the run was not saved
C25_Witness ==
    /\ pc = "failed"
    /\ error \in {"CropFailed", "PdfixFailedToRender"}
    /\ Len(setCalls) = 1
    /\ teardown = <<"doc.Close", "pdfix.Destroy">>


==========================================================================
